---- MODULE Spec2Model ----
(***************************************************************************)
(* Storyboard generation session: the App component's state               *)
(* (src/types.ts) driving GeminiService (src/services/geminiService.ts).   *)
(*                                                                         *)
(* JavaScript objects are functions from the keys that are present to      *)
(* their values, so a missing key is a key outside DOMAIN.  Array indices  *)
(* are kept 0-based as in the source; a sequence element is read at        *)
(* index + 1.  Strings the service invents are abstract records.           *)
(*                                                                         *)
(* removeImage, handleShotChange and copyToClipboard are left out:         *)
(* selectedShots keeps its initial nine entries.                           *)
(***************************************************************************)
EXTENDS Integers, Sequences, FiniteSets, TLC

VARIABLES
    images,              \* number of uploaded reference images (images.length)
    selectedShots,       \* ShotSize[9]
    status,              \* AnalysisStatus
    result,              \* StoryboardResult | null
    language,            \* 'en' | 'cn'
    regeneratingShotId,  \* number | null, as {} or {index}
    genCall,             \* the analyzeAndGenerate call awaited by generateStoryboard
    regenCalls,          \* the regenerateShot calls awaited by handleSingleShotRegenerate
    mounted,             \* the App tree is rendered (no render has thrown)
    callCount,           \* service calls issued so far
    merged,              \* history: per index, the regeneration last merged into the stored result
    last                 \* history: the last step of a service call, what it did and showed

vars == <<images, selectedShots, status, result, language, regeneratingShotId,
          genCall, regenCalls, mounted, callCount, merged, last>>

----------------------------------------------------------------------------
(* Bounds *)

MaxImages == 1
MaxCalls == 4

----------------------------------------------------------------------------
(* Values *)

Null == [null |-> TRUE]
Undefined == [undefined |-> TRUE]
EmptyObject == [k \in {} |-> TRUE]

Medium == "Medium Shot"

SelectedShotsLen == 9

\* the layout argument reaching analyzeAndGenerate: a GridLayout, or undefined
\* when the call site passes none
GridLayout == {"3x3", "2x2"}
LayoutArgs == GridLayout \cup {"undefined"}

Has(obj, key) == key \in DOMAIN obj
Get(obj, key) == IF Has(obj, key) THEN obj[key] ELSE Undefined

\* {...obj, key: val}
Spread(obj, key, val) ==
    [k \in (DOMAIN obj) \cup {key} |-> IF k = key THEN val ELSE obj[k]]

\* a bilingual text the service wrote: what it is about, in both languages
Bilingual(kind, tok, k) ==
    [en |-> [lang |-> "en", kind |-> kind, tok |-> tok, k |-> k],
     cn |-> [lang |-> "cn", kind |-> kind, tok |-> tok, k |-> k]]

\* a reply that honours the requested output shape for n shots
StoryboardObject(tok, n) ==
    [scenePrompt |-> Bilingual("scene", tok, 0),
     shots |-> [k \in 1..n |-> [id |-> k, description |-> Bilingual("shot", tok, k)]],
     transitions |-> [k \in 1..(n - 1) |->
                        [fromShot |-> k, toShot |-> k + 1,
                         prompt |-> Bilingual("transition", tok, k)]]]

\* what the service call settles with: a rejection, or a response whose text
\* is missing/empty, not JSON, or the JSON encoding of a value
Rejected == [kind |-> "rejected"]
NoText == [kind |-> "noText"]
Garbage == [kind |-> "garbage"]
JsonText(value) == [kind |-> "json", value |-> value]

----------------------------------------------------------------------------
(* GeminiService *)

RECURSIVE Join(_, _)
\* Array.prototype.join: every element, a separator between neighbours
Join(arr, sep) ==
    IF Len(arr) = 0 THEN <<>>
    ELSE IF Len(arr) = 1 THEN <<arr[1]>>
    ELSE <<arr[1], sep>> \o Join(Tail(arr), sep)

numShotsOf(layout) == IF layout = "3x3" THEN 9 ELSE 4

numTransitionsOf(layout) == numShotsOf(layout) - 1

\* the instruction text of the full-generation request, by its parameters
instructionOf(shots, layout, aspectRatio) ==
    [numShots |-> numShotsOf(layout),
     shotSizesEn |-> Join(shots, ", "),
     aspectRatio |-> aspectRatio,
     numTransitions |-> numTransitionsOf(layout)]

\* the instruction text of the single-shot request
shotInstructionOf(scenePrompt, shotId, shotSize) ==
    [scene |-> scenePrompt.en, shotId |-> shotId, shotSize |-> shotSize]

Threw == [threw |-> TRUE]
Returned(value) == [threw |-> FALSE, value |-> value]

\* JSON.parse(response.text)
textAsIs(response) == response

\* response.text || '{}'
textOrEmptyObject(response) ==
    IF response.kind = "noText" THEN JsonText(EmptyObject) ELSE response

\* a parser that yields {} for text that is not JSON
JSONparseLenient(text) ==
    IF text.kind = "json" THEN Returned(text.value) ELSE Returned(EmptyObject)

JSONparse(text) ==
    IF text.kind = "json" THEN Returned(text.value) ELSE Threw

\* try { await generateContent; return JSON.parse(...) } catch { throw }
analyzeAndGenerateSettle(response) ==
    IF response.kind = "rejected" THEN Threw
    ELSE JSONparse(textOrEmptyObject(response))

regenerateShotSettle(response) ==
    IF response.kind = "rejected" THEN Threw
    ELSE JSONparse(textOrEmptyObject(response))

----------------------------------------------------------------------------
(* App *)

Step(s) == [step |-> s]

\* the render reads result.scenePrompt.cn|en and iterates result.shots
renderThrows(r) ==
    /\ r # Null
    /\ ~Has(r, "scenePrompt") \/ ~Has(r, "shots")

InRange(r, index) ==
    /\ r # Null
    /\ Has(r, "shots")
    /\ index >= 0
    /\ index < Len(r.shots)

\* an updater that writes at the 1-based shot id
mergeAtShotId(prev, index, newDescription) ==
    IF prev = Null THEN Null
    ELSE LET newShots ==
                 IF index + 1 >= 0 /\ index + 1 < Len(prev.shots)
                 THEN [prev.shots EXCEPT ![index + 2] =
                          Spread(@, "description", newDescription)]
                 ELSE prev.shots
         IN  Spread(prev, "shots", newShots)

\* an updater without the if (newShots[index]) guard: the assignment grows
\* the array up to index
mergeWithoutGuard(prev, index, newDescription) ==
    IF prev = Null THEN Null
    ELSE LET newShots ==
                 IF index >= 0 /\ index < Len(prev.shots)
                 THEN [prev.shots EXCEPT ![index + 1] =
                          Spread(@, "description", newDescription)]
                 ELSE IF index >= Len(prev.shots)
                 THEN [k \in 1..(index + 1) |->
                          IF k <= Len(prev.shots) THEN prev.shots[k]
                          ELSE IF k = index + 1 THEN [description |-> newDescription]
                          ELSE Undefined]
                 ELSE prev.shots
         IN  Spread(prev, "shots", newShots)

\* the setResult updater of handleSingleShotRegenerate
mergeShotDescription(prev, index, newDescription) ==
    IF prev = Null THEN Null
    ELSE LET newShots ==
                 IF index >= 0 /\ index < Len(prev.shots)
                 THEN [prev.shots EXCEPT ![index + 1] =
                          Spread(@, "description", newDescription)]
                 ELSE prev.shots
         IN  Spread(prev, "shots", newShots)

\* setResult({...result, shots}): the merge applied to the closed-over result
setResultFromSnapshot(prev, call, newDescription) ==
    mergeShotDescription(call.snapshot, call.index, newDescription)

\* a merge that rejects a response older than the one already merged
setResultVersionChecked(prev, call, newDescription) ==
    IF Has(merged, call.index) /\ merged[call.index].seq > call.seq
    THEN prev
    ELSE mergeShotDescription(prev, call.index, newDescription)

\* setResult(prev => ...): the updater runs on the state current when the
\* response is handled; call.snapshot is the result the handler closed over
setResultUpdater(prev, call, newDescription) ==
    mergeShotDescription(prev, call.index, newDescription)

\* a catch block that clears the result
generateStoryboardResultCleared(prev, outcome) ==
    IF outcome.threw THEN Null ELSE outcome.value

\* try { data = await ...; setResult(data) } catch { }
generateStoryboardResult(prev, outcome) ==
    IF outcome.threw THEN prev ELSE outcome.value

generateStoryboardStatus(outcome) ==
    IF outcome.threw THEN Step("error") ELSE Step("completed")

Pad2(n) == IF n < 10 THEN <<0, n>> ELSE <<n \div 10, n % 10>>

getFinalPrompt ==
    IF result = Null THEN [intro |-> Undefined, lines |-> <<>>]
    ELSE LET isCN == language = "cn"
             scene == IF isCN THEN result.scenePrompt.cn ELSE result.scenePrompt.en
         IN  [intro |-> [lang |-> language, scene |-> scene,
                         grid |-> "3x3", shotCount |-> 9],
              lines |-> [idx \in 1..Len(result.shots) |->
                           [label |-> IF isCN THEN "Jingtou" ELSE "Shot",
                            number |-> Pad2(idx),
                            desc |-> IF isCN
                                     THEN Get(result.shots[idx].description, "cn")
                                     ELSE Get(result.shots[idx].description, "en")]]]

NoOp(op) ==
    [op |-> op, index |-> -1, seq |-> 0, layout |-> "", response |-> "",
     value |-> Undefined, over |-> 0, inRange |-> FALSE, changed |-> FALSE,
     stale |-> FALSE,
     alert |-> IF op = "regenerateFailed"
               THEN "Failed to regenerate specific shot. Please try again." ELSE ""]

Init ==
    /\ images = 0
    /\ selectedShots = [i \in 1..SelectedShotsLen |-> Medium]
    /\ status = Step("idle")
    /\ result = Null
    /\ language = "cn"
    /\ regeneratingShotId = {}
    /\ genCall = Null
    /\ regenCalls = {}
    /\ mounted = TRUE
    /\ callCount = 0
    /\ merged = EmptyObject
    /\ last = NoOp("init")

handleImageUpload ==
    /\ mounted
    /\ images < MaxImages
    /\ images' = images + 1
    /\ UNCHANGED <<selectedShots, status, result, language, regeneratingShotId,
                   genCall, regenCalls, mounted, callCount, merged, last>>

toggleLanguage ==
    /\ mounted
    /\ language' = IF language = "en" THEN "cn" ELSE "en"
    /\ UNCHANGED <<images, selectedShots, status, result, regeneratingShotId,
                   genCall, regenCalls, mounted, callCount, merged, last>>

\* the argument list of the analyzeAndGenerate call; the call site of
\* generateStoryboard passes images and selectedShots only, which leaves
\* layout and aspectRatio undefined, while other callers pass a GridLayout
generateStoryboard ==
    /\ mounted
    /\ status.step # "analyzing"
    /\ images > 0
    /\ callCount < MaxCalls
    /\ \E layout \in LayoutArgs :
         /\ genCall' = [seq |-> callCount + 1, layout |-> layout,
                        request |-> instructionOf(selectedShots, layout, "undefined")]
         /\ last' = [NoOp("generate") EXCEPT !.layout = layout]
    /\ status' = Step("analyzing")
    /\ callCount' = callCount + 1
    /\ UNCHANGED <<images, selectedShots, result, language, regeneratingShotId,
                   regenCalls, mounted, merged>>

\* what the service may answer to the full-generation request
GenResponses ==
    {Rejected, NoText, Garbage,
     JsonText(StoryboardObject(genCall.seq, genCall.request.numShots))}

\* the continuation of generateStoryboard once the awaited call settles
generateStoryboardSettle ==
    /\ genCall # Null
    /\ \E response \in GenResponses :
         LET outcome == analyzeAndGenerateSettle(response)
             stored == generateStoryboardResult(result, outcome)
         IN  /\ last' = [NoOp(IF outcome.threw THEN "generateFailed" ELSE "generateStored")
                           EXCEPT !.layout = genCall.layout, !.response = response.kind]
             /\ IF mounted
                THEN /\ result' = stored
                     /\ status' = generateStoryboardStatus(outcome)
                     /\ mounted' = ~renderThrows(stored)
                     /\ merged' = IF outcome.threw THEN merged ELSE EmptyObject
                ELSE UNCHANGED <<result, status, mounted, merged>>
    /\ genCall' = Null
    /\ UNCHANGED <<images, selectedShots, language, regeneratingShotId,
                   regenCalls, callCount>>

\* the refresh buttons are rendered for result.shots; the model clicks the
\* first and the last
RegenIdx == IF result = Null THEN {} ELSE {0, Len(result.shots) - 1}

handleSingleShotRegenerate ==
    /\ mounted
    /\ result # Null
    /\ callCount < MaxCalls
    /\ \E index \in RegenIdx :
         /\ regeneratingShotId # {index}
         /\ regeneratingShotId' = {index}
         /\ regenCalls' = regenCalls \cup
              {[seq |-> callCount + 1, index |-> index, snapshot |-> result,
                request |-> shotInstructionOf(result.scenePrompt, index + 1,
                                              selectedShots[index + 1])]}
         /\ last' = [NoOp("regenerate") EXCEPT !.index = index, !.seq = callCount + 1]
    /\ callCount' = callCount + 1
    /\ UNCHANGED <<images, selectedShots, status, result, language,
                   genCall, mounted, merged>>

\* what the service may answer to a single-shot request
RegenResponses(call) ==
    {Rejected, NoText, Garbage,
     JsonText(Bilingual("regen", call.seq, call.request.shotId))}

\* the continuation of handleSingleShotRegenerate once the awaited call settles
handleSingleShotRegenerateSettle ==
    /\ \E call \in regenCalls : \E response \in RegenResponses(call) :
         LET outcome == regenerateShotSettle(response)
             stored == IF outcome.threw THEN result
                       ELSE setResultUpdater(result, call, outcome.value)
         IN  /\ regenCalls' = regenCalls \ {call}
             /\ last' = [NoOp(IF outcome.threw THEN "regenerateFailed" ELSE "regenerateMerged")
                           EXCEPT !.index = call.index, !.seq = call.seq,
                                  !.response = response.kind,
                                  !.value = IF outcome.threw THEN Undefined ELSE outcome.value,
                                  !.over = IF Has(merged, call.index)
                                           THEN merged[call.index].seq ELSE 0,
                                  !.inRange = InRange(result, call.index),
                                  !.changed = mounted /\ stored # result,
                                  !.stale = Get(call.snapshot, "scenePrompt")
                                              # Get(result, "scenePrompt")]
             /\ IF mounted
                THEN /\ result' = stored
                     /\ mounted' = ~renderThrows(stored)
                     /\ regeneratingShotId' = {}
                     /\ merged' = IF outcome.threw \/ ~InRange(result, call.index)
                                  THEN merged
                                  ELSE Spread(merged, call.index,
                                              [seq |-> call.seq, value |-> outcome.value])
                ELSE UNCHANGED <<result, mounted, regeneratingShotId, merged>>
    /\ UNCHANGED <<images, selectedShots, status, language, genCall, callCount>>

Next ==
    \/ handleImageUpload
    \/ toggleLanguage
    \/ generateStoryboard
    \/ generateStoryboardSettle
    \/ handleSingleShotRegenerate
    \/ handleSingleShotRegenerateSettle

Spec == Init /\ [][Next]_vars

----------------------------------------------------------------------------
(* Properties *)

\* the step in which the continuation of generateStoryboard runs
GenerateSettles == genCall # Null /\ genCall' = Null

\* the step in which the continuation of one handleSingleShotRegenerate runs
RegenerateSettles == regenCalls' # regenCalls /\ regenCalls' \subseteq regenCalls

\* the step in which a regenerated description is handed to the updater
RegenerateMerges == RegenerateSettles /\ mounted /\ last'.op = "regenerateMerged"

DescriptionAt(r, index) == Get(r.shots[index + 1], "description")

\* C1: a merge at a valid index stores the new description at that index,
\* keeps that shot's id, every other shot, the length and order of shots,
\* scenePrompt and transitions.
C1_MergeFrame ==
    [][RegenerateMerges /\ InRange(result, last'.index) =>
         /\ DOMAIN result' = DOMAIN result
         /\ Len(result'.shots) = Len(result.shots)
         /\ DescriptionAt(result', last'.index) = last'.value
         /\ Has(result'.shots[last'.index + 1], "id")
         /\ result'.shots[last'.index + 1].id = result.shots[last'.index + 1].id
         /\ \A j \in 1..Len(result.shots) :
              j # last'.index + 1 => result'.shots[j] = result.shots[j]
         /\ result'.scenePrompt = result.scenePrompt
         /\ result'.transitions = result.transitions]_vars

C1_Witness ==
    /\ last.op = "regenerateMerged"
    /\ last.response = "json"
    /\ InRange(result, last.index)
    /\ DescriptionAt(result, last.index) = last.value
    /\ result.shots[last.index + 1].id = last.index + 1

\* C2: regenerations of different indices that were in flight together are
\* both in the stored result once both have resolved, in whichever order.
C2_NoLostUpdate ==
    \A i \in DOMAIN merged : \A j \in DOMAIN merged :
        i # j =>
          /\ InRange(result, i) /\ DescriptionAt(result, i) = merged[i].value
          /\ InRange(result, j) /\ DescriptionAt(result, j) = merged[j].value

\* the request merged last was issued before one for another index that had
\* already been merged: the two were in flight together and resolved out of order
C2_Witness ==
    /\ last.op = "regenerateMerged"
    /\ Has(merged, last.index)
    /\ merged[last.index].seq = last.seq
    /\ \E j \in DOMAIN merged :
         /\ j # last.index
         /\ merged[j].seq > last.seq
         /\ merged[j].value # EmptyObject
         /\ DescriptionAt(result, j) = merged[j].value
    /\ DescriptionAt(result, last.index) = last.value

\* C3: when a response for an index resolves after another response for the
\* same index, its description is the one stored, whichever request was
\* issued first.
C3_LastResolvedWins ==
    last.op = "regenerateMerged" /\ last.over > 0 /\ mounted =>
        /\ InRange(result, last.index)
        /\ DescriptionAt(result, last.index) = last.value
        /\ merged[last.index].seq = last.seq

\* the older request resolved last and replaced the newer response
C3_Witness ==
    /\ last.op = "regenerateMerged"
    /\ last.over > last.seq
    /\ last.response = "json"
    /\ DescriptionAt(result, last.index) = last.value

\* some values to merge
SomeDescriptions == {EmptyObject, Bilingual("regen", 0, 0)}

OutOfRange(r) == {-2, -1, Len(r.shots), Len(r.shots) + 1, Len(r.shots) + 5}

\* C4: a merge at an index outside shots raises nothing and leaves the
\* result value-equal to what it was.
C4_OutOfRangeNoOp ==
    /\ result # Null /\ Has(result, "shots") =>
         \A i \in OutOfRange(result) : \A d \in SomeDescriptions :
             mergeShotDescription(result, i, d) = result
    /\ last.op \in {"regenerateMerged", "regenerateFailed"}
         /\ last.response \in {"json", "noText"} /\ ~last.inRange =>
            /\ ~last.changed
            /\ last.op = "regenerateMerged"
            /\ last.alert = ""

C4_Witness ==
    /\ last.op = "regenerateMerged"
    /\ last.response = "json"
    /\ mounted
    /\ result # Null
    /\ ~last.inRange
    /\ ~last.changed
    /\ last.index >= Len(result.shots)

\* C5: a stored result has 9 shots and 8 transitions for '3x3', 4 and 3 for
\* '2x2'; every stored result has 4 or 9 shots and one transition fewer.
C5_ShotCounts ==
    /\ result # Null =>
         /\ Has(result, "shots")
         /\ Has(result, "transitions")
         /\ Len(result.shots) \in {4, 9}
         /\ Len(result.transitions) = Len(result.shots) - 1
    /\ last.op = "generateStored" /\ last.layout = "3x3" =>
         /\ Has(result, "shots") /\ Len(result.shots) = 9
         /\ Has(result, "transitions") /\ Len(result.transitions) = 8
    /\ last.op = "generateStored" /\ last.layout = "2x2" =>
         /\ Has(result, "shots") /\ Len(result.shots) = 4
         /\ Has(result, "transitions") /\ Len(result.transitions) = 3

\* C6: the step that handles a failed full generation leaves the stored
\* result as it was, an absent one absent, and sets the status to 'error'.
C6_FailedGenerationKeepsResult ==
    [][GenerateSettles /\ last'.op = "generateFailed" =>
         /\ last'.response \in {"rejected", "garbage"}
         /\ result' = result
         /\ status'.step = "error"]_vars

C6_Witness ==
    /\ last.op = "generateFailed"
    /\ last.response = "rejected"
    /\ status.step = "error"
    /\ result # Null
    /\ mounted
    /\ Len(result.shots) = 9

\* C7: a response without text is parsed to an empty object and handled as a
\* success: the full generation stores it and reports completion, the
\* regeneration merges it as the description and raises no alert.
C7_EmptyTextIsSuccess ==
    /\ last.response = "noText" =>
         /\ last.op \in {"generateStored", "regenerateMerged"}
         /\ last.alert = ""
    /\ last.response = "noText" /\ last.op = "generateStored" =>
         /\ result = EmptyObject
         /\ status.step = "completed"
    /\ last.response = "noText" /\ last.op = "regenerateMerged" =>
         /\ last.value = EmptyObject
         /\ InRange(result, last.index) =>
              DescriptionAt(result, last.index) = EmptyObject

C7_Witness ==
    /\ last.response = "noText"
    /\ last.op = "regenerateMerged"
    /\ InRange(result, last.index)
    /\ DescriptionAt(result, last.index) = EmptyObject
    /\ status.step = "completed"

\* C8: text that is not well-formed makes the operation fail once: the
\* failure is shown (status 'error', or the alert), the call is over, no
\* request is issued again and the stored result is as it was.
C8_GarbageFailsOnce ==
    [][(GenerateSettles \/ RegenerateSettles) /\ last'.response = "garbage" =>
         /\ result' = result
         /\ callCount' = callCount
         /\ GenerateSettles =>
              /\ last'.op = "generateFailed"
              /\ status'.step = "error"
              /\ regenCalls' = regenCalls
         /\ RegenerateSettles =>
              /\ last'.op = "regenerateFailed"
              /\ last'.alert # ""
              /\ genCall' = genCall
              /\ Cardinality(regenCalls') = Cardinality(regenCalls) - 1]_vars

C8_Witness ==
    /\ last.response = "garbage"
    /\ last.op = "regenerateFailed"
    /\ last.alert # ""
    /\ mounted
    /\ result # Null
    /\ regenCalls = {}

\* the shot lines the claim describes, for the stored result and language
ExpectedLines ==
    [k \in 1..Len(result.shots) |->
        [label |-> IF language = "cn" THEN "Jingtou" ELSE "Shot",
         number |-> <<k \div 10, k % 10>>,
         desc |-> result.shots[k].description[language]]]

\* C9: the assembled prompt states len(shots) as the shot count and holds
\* one line per shot, in order, numbered with two digits, with the shot's
\* description in the language.
C9_PromptMatchesShots ==
    mounted /\ result # Null =>
        /\ getFinalPrompt.intro.shotCount = Len(result.shots)
        /\ Len(getFinalPrompt.lines) = Len(result.shots)
        /\ \A k \in 1..Len(result.shots) :
             /\ getFinalPrompt.lines[k].number = <<k \div 10, k % 10>>
             /\ Has(result.shots[k].description, language)
             /\ getFinalPrompt.lines[k] = ExpectedLines[k]

\* the shot sizes listed in an instruction text
ListedShotSizes(text) == {i \in DOMAIN text : text[i] # ", "}

\* C10: the instruction text lists no more shot sizes than the shot count
\* of the layout.
C10_ListsOnlyNeededShotSizes ==
    genCall # Null =>
        Cardinality(ListedShotSizes(genCall.request.shotSizesEn))
            <= genCall.request.numShots

\* a bilingual field with both of its texts
HasBoth(obj, key) ==
    /\ Has(obj, key)
    /\ Has(obj[key], "en")
    /\ Has(obj[key], "cn")

\* C11: every bilingual field of the stored result (scenePrompt, each shot's
\* description, each transition's prompt) has both en and cn.
C11_BilingualComplete ==
    result # Null =>
        /\ HasBoth(result, "scenePrompt")
        /\ Has(result, "shots")
        /\ \A k \in 1..Len(result.shots) : HasBoth(result.shots[k], "description")
        /\ Has(result, "transitions")
        /\ \A k \in 1..Len(result.transitions) : HasBoth(result.transitions[k], "prompt")

\* C12: at most one regeneration per shot index is in flight, and while one
\* for index i is pending regeneratingShotId is i (its refresh control is
\* disabled).
C12_OneRegenerationPerShot ==
    /\ \A c \in regenCalls : regeneratingShotId = {c.index}
    /\ \A c \in regenCalls : \A d \in regenCalls : c.index = d.index => c = d

\* C13: a regenerated description that arrives after a full generation has
\* replaced the result it was requested for changes no shot of the new
\* result.
C13_StaleResponseNotMerged ==
    last.op = "regenerateMerged" /\ last.response = "json" /\ last.stale =>
        ~last.changed

====
